---------------------------- MODULE Spec2Model ----------------------------
(***************************************************************************)
(* Model of the onboarding bot of src/main.py: the stage catalog, the      *)
(* users table, the media cache and the message handler.                   *)
(*                                                                         *)
(* Strings of the source that are written in Cyrillic (menu labels, quiz   *)
(* answers, keyboard captions) are transliterated to ASCII, emoji dropped  *)
(* or named; distinct source strings stay distinct.  The content of a text *)
(* file is identified with the name of the file it is loaded from.         *)
(***************************************************************************)
EXTENDS Naturals, Sequences, FiniteSets, TLC

\* Telegram user ids of the users that write to the bot (private chats, so
\* the chat id is the user id).
Users == {"u1", "u2"}

(***************************************************************************)
(* class UserState(Enum): member name and value, in declaration order.     *)
(***************************************************************************)
UserState ==
    << <<"START", "start">>, <<"AFTER_START", "after_start">>,
       <<"AFTER_NAME", "after_name">>, <<"BLACK", "black">>,
       <<"CHOOSE_NAME", "choose_name">>, <<"COMMON", "common">>,
       <<"DICT", "dict">>, <<"END", "end">>, <<"FAULTS", "faults">>,
       <<"FIRE", "fire">>, <<"FIRST_DAY", "first_day">>, <<"GRAY", "gray">>,
       <<"HOW_TO_FIRE", "how_to_fire">>, <<"MC1", "mc1">>, <<"MC2", "mc2">>,
       <<"MC3", "mc3">>, <<"MC_START", "mc_start">>, <<"MENU", "menu">>,
       <<"NIGHT", "night">>, <<"RED", "red">>, <<"TEST_END", "test_end">>,
       <<"TEST_Q1", "test_q1">>, <<"TEST_Q2", "test_q2">>,
       <<"TEST_Q3", "test_q3">>, <<"VOTING", "voting">>,
       <<"WHERE", "where">>, <<"WHO", "who">>, <<"YELLOW", "yellow">>,
       <<"ZERO_NIGHT", "zero_night">> >>

\* The members of the enumeration.
UserStateMembers == {UserState[i][1] : i \in DOMAIN UserState}

\* The values of the members.
UserStateValues == {UserState[i][2] : i \in DOMAIN UserState}

\* member -> value, and value -> member, as lookup tables.
ValueTable ==
    [state \in UserStateMembers |->
        UserState[CHOOSE k \in DOMAIN UserState : UserState[k][1] = state][2]]

MemberTable ==
    [value \in UserStateValues |->
        UserState[CHOOSE k \in DOMAIN UserState : UserState[k][2] = value][1]]

\* state.value
Value(state) == ValueTable[state]

\* UserState(row[0]): the member with that value.
UserStateOf(value) == MemberTable[value]

(***************************************************************************)
(* STAGES: the stage order.                                                *)
(***************************************************************************)
STAGES ==
    << "START", "AFTER_START", "CHOOSE_NAME", "AFTER_NAME", "COMMON", "RED",
       "YELLOW", "BLACK", "GRAY", "HOW_TO_FIRE", "FIRST_DAY", "VOTING",
       "FIRE", "NIGHT", "FAULTS", "WHO", "DICT", "TEST_Q1", "TEST_Q2",
       "TEST_Q3", "TEST_END", "MC_START", "MC1", "MC2", "MC3", "WHERE",
       "END", "MENU" >>

StagesSet == {STAGES[i] : i \in DOMAIN STAGES}

\* stage -> its first position in STAGES, 0-based as in the source.
IndexTable ==
    [state \in StagesSet |->
        (CHOOSE k \in DOMAIN STAGES :
            /\ STAGES[k] = state
            /\ \A j \in 1 .. (k - 1) : STAGES[j] # state) - 1]

\* STAGES.index(state); defined for the members of the list only.
StagesIndex(state) == IndexTable[state]

\* Seeded fault: the successor computed two positions ahead.
NextStage_skip(state) ==
    STAGES[((StagesIndex(state) + 2) % Len(STAGES)) + 1]

\* Seeded fault: the successor clamped at the end of the list, not wrapped.
NextStage_clamped(state) ==
    IF StagesIndex(state) + 1 >= Len(STAGES)
    THEN STAGES[Len(STAGES)]
    ELSE STAGES[StagesIndex(state) + 2]

\* STAGES[(STAGES.index(state) + 1) % len(STAGES)]
NextStage(state) ==
    STAGES[((StagesIndex(state) + 1) % Len(STAGES)) + 1]

(***************************************************************************)
(* stages_names: menu label -> stage, in insertion order.                  *)
(*   "Obshchaya informatsiya"    Общая информация                          *)
(*   "Mirnyi zhitel"             Мирный житель                             *)
(*   "Sherif"                    Шериф                                     *)
(*   "Mafiya"                    Мафия                                     *)
(*   "Don"                       Дон                                       *)
(*   "Dogovorka mafii"           Договорка мафии                           *)
(*   "Den"                       День                                      *)
(*   "Golosovanie"               Голосование                               *)
(*   "Strelba"                   Стрельба                                  *)
(*   "Nochnaya faza"             Ночная фаза                               *)
(*   "Foly i zapreshchennye frazy"  Фолы и запрещенные фразы               *)
(*   "Zhest voprosa"             Жест вопроса                              *)
(*   "Slovar"                    Словарь                                   *)
(*   "Test znanii"               Тест знаний                               *)
(*   "Poleznye ssylki"           Полезные ссылки                           *)
(*   "Gde igrat?"                Где играть?                               *)
(***************************************************************************)
\* Seeded fault: the label of the night phase resolves to ZERO_NIGHT.
stages_names_zero_night ==
    << <<"Obshchaya informatsiya", "COMMON">>,
       <<"Mirnyi zhitel", "RED">>,
       <<"Sherif", "YELLOW">>,
       <<"Mafiya", "BLACK">>,
       <<"Don", "GRAY">>,
       <<"Dogovorka mafii", "HOW_TO_FIRE">>,
       <<"Den", "FIRST_DAY">>,
       <<"Golosovanie", "VOTING">>,
       <<"Strelba", "FIRE">>,
       <<"Nochnaya faza", "ZERO_NIGHT">>,
       <<"Foly i zapreshchennye frazy", "FAULTS">>,
       <<"Zhest voprosa", "WHO">>,
       <<"Slovar", "DICT">>,
       <<"Test znanii", "TEST_Q1">>,
       <<"Poleznye ssylki", "MC1">>,
       <<"Gde igrat?", "WHERE">> >>

stages_names ==
    << <<"Obshchaya informatsiya", "COMMON">>,
       <<"Mirnyi zhitel", "RED">>,
       <<"Sherif", "YELLOW">>,
       <<"Mafiya", "BLACK">>,
       <<"Don", "GRAY">>,
       <<"Dogovorka mafii", "HOW_TO_FIRE">>,
       <<"Den", "FIRST_DAY">>,
       <<"Golosovanie", "VOTING">>,
       <<"Strelba", "FIRE">>,
       <<"Nochnaya faza", "NIGHT">>,
       <<"Foly i zapreshchennye frazy", "FAULTS">>,
       <<"Zhest voprosa", "WHO">>,
       <<"Slovar", "DICT">>,
       <<"Test znanii", "TEST_Q1">>,
       <<"Poleznye ssylki", "MC1">>,
       <<"Gde igrat?", "WHERE">> >>

\* [k for (k, v) in stages_names.items()]
MenuLabels == [i \in DOMAIN stages_names |-> stages_names[i][1]]

\* text in stages_names
IsMenuLabel(text) == \E i \in DOMAIN stages_names : stages_names[i][1] = text

\* stages_names[text], for a key of the dictionary.
MenuTarget(text) ==
    LET i == CHOOSE k \in DOMAIN stages_names : stages_names[k][1] = text
    IN  stages_names[i][2]

(***************************************************************************)
(* State.                                                                  *)
(*   users        the table users of db/users.db: id -> state column, or   *)
(*                NoRow where the table holds no row for the id            *)
(*   media_cache  the module-level dictionary path -> file_id              *)
(*   issued       the server's side of the video uploads: path -> how many *)
(*                identifiers it has issued for uploads of that path       *)
(* and, for the handling of the latest update by the handler message:      *)
(*   sent         the bot API calls it made, in order                      *)
(*   log          the records it logged (logger.info), in order            *)
(*   writes       the SQL statements it ran against users, in order        *)
(*   raised       the exception that ended it, or "None"                   *)
(* The other specifications of this module add:                            *)
(*   orbit        a walk along the successor function: where it started,   *)
(*                where it is, the stage before, the number of steps       *)
(*   trail        the replies' texts of each handling of a walkthrough     *)
(*   task, pc     the handler calls in flight when updates are handled     *)
(*                concurrently: each call's locals, and where it stands    *)
(***************************************************************************)
VARIABLES users, media_cache, issued, sent, log, writes, raised,
          orbit, trail, task, pc

vars == <<users, media_cache, issued, sent, log, writes, raised,
          orbit, trail, task, pc>>

\* The handler calls that may be in flight together.
Tasks == {"t1", "t2"}

\* No walk, no walkthrough, no call in flight.
NoOrbit == [from |-> "", at |-> "", prev |-> "", n |-> 0]

NoTask ==
    [user |-> "", text |-> "", loaded |-> "", state |-> "", depth |-> 0,
     miss |-> ""]

Quiet ==
    /\ orbit = NoOrbit
    /\ trail = <<>>
    /\ task = [t \in Tasks |-> NoTask]
    /\ pc = [t \in Tasks |-> "idle"]

\* Python's None, where a string or a stage is expected.
None == "None"

\* get_user_state finds no row.
NoRow == "<no row>"

\* No file identifier.
NoFileId == [path |-> "", n |-> 0]

(***************************************************************************)
(* Strings of the handler.                                                 *)
(***************************************************************************)
\* "/start"
StartCommand == "/start"

\* "Маньяк", the expected answer to the first question
Answer1 == "Manyak"

\* "Игрок № 5 - мирный житель", the expected answer to the second question
Answer2 == "Igrok No 5 - mirnyi zhitel"

\* "Первой ночью стреляем в игрока 1, следующей в 6, потом в 4."
Answer3 == "Pervoi nochyu strelyaem v igroka 1, sleduyushchei v 6, potom v 4."

InvalidSelection == "Invalid selection. Please choose a valid stage."

\* The texts an inbound message may carry: the command, every menu label,
\* the three expected answers, and a text that is none of these.
Texts ==
    {StartCommand, Answer1, Answer2, Answer3, "garbled"}
        \cup {MenuLabels[i] : i \in DOMAIN MenuLabels}

(***************************************************************************)
(* Content loading and keyboards.                                          *)
(***************************************************************************)
\* load_text(filename): the content of texts/<filename>.
load_text(filename) == filename

\* load_stage_text(stage, suffix)
load_stage_text(stage, suffix) == load_text(Value(stage) \o suffix \o ".txt")

\* reply_markup=None
NoMarkup == [type |-> "None", keyboard |-> <<>>]

\* ReplyKeyboardRemove()
ReplyKeyboardRemove == [type |-> "ReplyKeyboardRemove", keyboard |-> <<>>]

\* keyboard_from_messages(messages): one row per message.
keyboard_from_messages(messages) ==
    [type |-> "ReplyKeyboardMarkup",
     keyboard |-> [i \in DOMAIN messages |-> <<messages[i]>>]]

(***************************************************************************)
(* The handler works on a record s of the state components.                *)
(***************************************************************************)
Call(method, chat_id, text, file, file_id, result, reply_markup) ==
    [method |-> method, chat_id |-> chat_id, text |-> text, file |-> file,
     file_id |-> file_id, result |-> result, reply_markup |-> reply_markup]

\* context.bot.send_chat_action(chat_id, action)  (decorator send_action)
send_chat_action(s, chat_id, action) ==
    [s EXCEPT !.sent = Append(@,
        Call("send_chat_action", chat_id, action, "", NoFileId, NoFileId,
             NoMarkup))]

\* context.bot.send_message(chat_id, text, reply_markup)
send_message(s, chat_id, text, reply_markup) ==
    [s EXCEPT !.sent = Append(@,
        Call("send_message", chat_id, text, "", NoFileId, NoFileId,
             reply_markup))]

\* send_image: opens pics/<image_path> and uploads it with every call; the
\* answer of the server is dropped.
send_image(s, chat_id, image_path, text, reply_markup) ==
    [s EXCEPT !.sent = Append(@,
        Call("send_photo", chat_id, text, image_path, NoFileId, NoFileId,
             reply_markup))]

\* How many identifiers the server has issued for uploads of path.
Issued(s, path) == IF path \in DOMAIN s.issued THEN s.issued[path] ELSE 0

\* send_video: by the cached identifier when the path is in media_cache,
\* else uploads pics/<video_path> and caches update.video.file_id, the
\* identifier of the server's answer: a fresh one with every upload.
send_video_by_id(s, chat_id, video_path, text, reply_markup) ==
    [s EXCEPT !.sent = Append(@,
        Call("send_video", chat_id, text, "", s.media_cache[video_path],
             s.media_cache[video_path], reply_markup))]

\* Seeded fault: the identifier of the server's answer is not cached.
send_video_upload_uncached(s, chat_id, video_path, text, reply_markup) ==
    LET id == [path |-> video_path, n |-> Issued(s, video_path) + 1]
    IN  [s EXCEPT
            !.sent = Append(@,
                Call("send_video", chat_id, text, video_path, NoFileId,
                     id, reply_markup)),
            !.issued = (video_path :> id.n) @@ @]

send_video_upload(s, chat_id, video_path, text, reply_markup) ==
    LET id == [path |-> video_path, n |-> Issued(s, video_path) + 1]
    IN  [s EXCEPT
            !.sent = Append(@,
                Call("send_video", chat_id, text, video_path, NoFileId,
                     id, reply_markup)),
            !.issued = (video_path :> id.n) @@ @,
            !.media_cache = (video_path :> id) @@ @]

send_video(s, chat_id, video_path, text, reply_markup) ==
    IF video_path \in DOMAIN s.media_cache
    THEN send_video_by_id(s, chat_id, video_path, text, reply_markup)
    ELSE send_video_upload(s, chat_id, video_path, text, reply_markup)

\* Seeded fault: INSERT OR REPLACE, which resets an existing row.
add_user_replace(s, user_id) ==
    [s EXCEPT
        !.users = [@ EXCEPT ![user_id] = Value("START")],
        !.writes = Append(@, [op |-> "INSERT OR REPLACE", id |-> user_id,
                              state |-> Value("START")])]

\* add_user: INSERT OR IGNORE ... VALUES (id, username, START.value)
add_user(s, user_id) ==
    [s EXCEPT
        !.users = IF @[user_id] = NoRow
                  THEN [@ EXCEPT ![user_id] = Value("START")]
                  ELSE @,
        !.writes = Append(@, [op |-> "INSERT OR IGNORE", id |-> user_id,
                              state |-> Value("START")])]

\* Seeded fault: the UPDATE lacks its WHERE clause and sets every row.
update_user_state_every_row(s, user_id, state) ==
    [s EXCEPT
        !.users = [u \in DOMAIN @ |->
                      IF @[u] = NoRow THEN NoRow ELSE Value(state)],
        !.writes = Append(@, [op |-> "UPDATE", id |-> user_id,
                              state |-> Value(state)])]

\* update_user_state: UPDATE users SET state = ? WHERE id = ?
update_user_state(s, user_id, state) ==
    [s EXCEPT
        !.users = IF @[user_id] = NoRow
                  THEN @
                  ELSE [@ EXCEPT ![user_id] = Value(state)],
        !.writes = Append(@, [op |-> "UPDATE", id |-> user_id,
                              state |-> Value(state)])]

\* get_user_state: UserState(row[0]) if row else None
get_user_state(s, user_id) ==
    IF s.users[user_id] = NoRow THEN None ELSE UserStateOf(s.users[user_id])

\* logger.info(f"Message from {user} on state {state} with text {text}")
logger_info(s, user, state, text) ==
    [s EXCEPT !.log = Append(@, [user |-> user, state |-> state,
                                 text |-> text])]

\* An exception leaves the handler.
raise(s, exception) == [s EXCEPT !.raised = exception]

(***************************************************************************)
(* The stages' renderers.                                                  *)
(***************************************************************************)
\* Seeded fault: the callers leave reply_str out, so that it is None.
common_stage_process_no_reply(s, chat_id, state, reply_str) ==
    update_user_state(
        send_message(s, chat_id, load_stage_text(state, ""),
                     keyboard_from_messages(<<"Vernutsya v menyu">>)),
        chat_id, "MENU")

\* common_stage_process(chat_id, context, state, reply_str=None); the "Back
\* to the menu" keyboard ("Вернуться в меню") stands for a missing reply_str.
common_stage_process(s, chat_id, state, reply_str) ==
    LET s1 == send_message(s, chat_id, load_stage_text(state, ""),
                  keyboard_from_messages(
                      IF reply_str # None /\ reply_str # ""
                      THEN <<reply_str>> ELSE <<"Vernutsya v menyu">>))
    IN  IF reply_str = None
        THEN update_user_state(s1, chat_id, "MENU")
        ELSE s1

\* role_stage_process(chat_id, context, state, update, reply_str)
role_stage_process(s, chat_id, state, reply_str) ==
    LET s1 == send_message(s, chat_id, load_stage_text(state, "1"), NoMarkup)
    IN  send_image(s1, chat_id, Value(state) \o ".jpg",
                   load_stage_text(state, "2"),
                   keyboard_from_messages(<<reply_str>>))

\* A video stage (VOTING, NIGHT): the first text, then the video with the
\* second text as its caption.
video_stage_process(s, chat_id, state, video_path, reply_str) ==
    LET s1 == send_message(s, chat_id, load_stage_text(state, "1"), NoMarkup)
    IN  send_video(s1, chat_id, video_path, load_stage_text(state, "2"),
                   keyboard_from_messages(<<reply_str>>))

\* Seeded fault: the corrective text is sent whatever the answer.
quiz_check_always(s, chat_id, text, expected, filename) ==
    send_message(s, chat_id, load_text(filename), NoMarkup)

\* Seeded fault: the comparison is inverted.
quiz_check_inverted(s, chat_id, text, expected, filename) ==
    IF text = expected
    THEN send_message(s, chat_id, load_text(filename), NoMarkup)
    ELSE s

\* if update.message.text != expected: send_message(load_text(filename))
quiz_check(s, chat_id, text, expected, filename) ==
    IF text # expected
    THEN send_message(s, chat_id, load_text(filename), NoMarkup)
    ELSE s

\* The reply keyboards of the three questions.
Q1Keyboard == <<"Don mafii", Answer1, "Mafiya", "Sherif", "Mirnyi zhitel">>

Q2Keyboard ==
    <<"Igrok No 5 - mafiya", Answer2, "Vy mafiya", "Igrok No 1 - sherif">>

Q3Keyboard ==
    <<"Strelyaem v pervuyu noch i v 1, i v 6, i v 4", Answer3,
      "Nuzhno prosnutsya nochyu: kogda nazovut 1">>

\* case UserState.END: the closing text with the menu keyboard, and the
\* state set to MENU.
end_stage_process(s, user_id, chat_id, state) ==
    update_user_state(
        send_message(s, chat_id, load_stage_text(state, ""),
                     keyboard_from_messages(MenuLabels)),
        user_id, "MENU")

\* match state: ... ; a state with no case (START, MENU, ZERO_NIGHT) renders
\* nothing.
match_state(s, user_id, chat_id, state, text) ==
    CASE state = "AFTER_START" ->
            common_stage_process(s, chat_id, state, "Da!")
      [] state = "CHOOSE_NAME" ->
            send_message(
                send_message(s, chat_id, load_stage_text(state, ""), NoMarkup),
                chat_id, load_stage_text(state, "2"), ReplyKeyboardRemove)
      [] state = "AFTER_NAME" ->
            common_stage_process(s, chat_id, state, "Gotov")
      [] state = "COMMON" ->
            common_stage_process(s, chat_id, state,
                                 "Teper khochu uznat pro roli!")
      [] state = "RED" ->
            role_stage_process(s, chat_id, state,
                               "Tak, a sherif tozhe mirnyi zhitel?")
      [] state = "YELLOW" ->
            role_stage_process(s, chat_id, state, "A teper pro mafiyu")
      [] state = "BLACK" ->
            role_stage_process(s, chat_id, state, "A kto takoi don mafii?")
      [] state = "GRAY" ->
            role_stage_process(s, chat_id, state,
                               "Tak-tak-tak, a kak ponyat kuda strelyat?")
      [] state = "HOW_TO_FIRE" ->
            common_stage_process(s, chat_id, state,
                                 "Vrode ponyatno. Chto dalshe?")
      [] state = "FIRST_DAY" ->
            common_stage_process(s, chat_id, state,
                                 "Tak-tak, a kak golosovat?")
      [] state = "VOTING" ->
            video_stage_process(s, chat_id, state, "voting.mp4",
                                "A potom chto?")
      [] state = "FIRE" ->
            common_stage_process(s, chat_id, state, "A don mafii i sherif?")
      [] state = "NIGHT" ->
            video_stage_process(s, chat_id, state, "night.mp4",
                                "Eto vse? Uzhe mozhno igrat?")
      [] state = "FAULTS" ->
            common_stage_process(s, chat_id, state,
                "To est, ne v svoyu minutu nelzya obshchatsya?")
      [] state = "WHO" ->
            send_image(
                send_message(s, chat_id, load_stage_text(state, ""), NoMarkup),
                chat_id, "who.jpg", load_stage_text(state, "2"),
                keyboard_from_messages(
                    <<"A est eshche chto-to vazhnoe, chtoby seichas uznat?">>))
      [] state = "DICT" ->
            common_stage_process(s, chat_id, state, "Teper proverka znanii!")
      [] state = "TEST_Q1" ->
            send_message(s, chat_id, load_stage_text(state, ""),
                         keyboard_from_messages(Q1Keyboard))
      [] state = "TEST_Q2" ->
            send_message(
                quiz_check(s, chat_id, text, Answer1, "test_a1.txt"),
                chat_id, load_stage_text(state, ""),
                keyboard_from_messages(Q2Keyboard))
      [] state = "TEST_Q3" ->
            send_message(
                quiz_check(s, chat_id, text, Answer2, "test_a2.txt"),
                chat_id, load_stage_text(state, ""),
                keyboard_from_messages(Q3Keyboard))
      [] state = "TEST_END" ->
            common_stage_process(
                quiz_check(s, chat_id, text, Answer3, "test_a3.txt"),
                chat_id, state, "Ya uzhe poigral!")
      [] state = "MC_START" ->
            common_stage_process(s, chat_id, state, "Da :grin:")
      [] state = "MC1" ->
            common_stage_process(s, chat_id, state,
                                 "Tak, a chto eshche posmotret?")
      [] state = "MC2" ->
            common_stage_process(s, chat_id, state, "Super!")
      [] state = "MC3" ->
            common_stage_process(s, chat_id, state, "A gde mozhno poigrat?")
      [] state = "WHERE" ->
            common_stage_process(s, chat_id, state, ":yum::yum::yum:")
      [] state = "END" ->
            end_stage_process(s, user_id, chat_id, state)
      [] OTHER -> s

\* Seeded fault: the return of case UserState.END is missing.
match_returns_never(state) == FALSE

\* case UserState.END ends in return: the lines after the match are skipped.
match_returns(state) == state = "END"

\* next_stage = STAGES[(STAGES.index(state) + 1) % len(STAGES)]
\* await update_user_state(user.id, next_stage)
\* STAGES.index raises ValueError for a state that is not in the list.
\* Seeded fault: the advance stores the stage it loaded.
advance_in_place(s, user_id, state) ==
    IF state \notin StagesSet
    THEN raise(s, "ValueError")
    ELSE update_user_state(s, user_id, state)

advance(s, user_id, state) ==
    IF state \notin StagesSet
    THEN raise(s, "ValueError")
    ELSE update_user_state(s, user_id, NextStage(state))

\* Seeded fault: a missing session does not restart.
restarts_command_only(text, state) == text = StartCommand

\* Seeded fault: the command restarts a missing session only.
restarts_fresh_only(text, state) == state = None

\* if update.message.text == "/start" or state is None
restarts(text, state) == text = StartCommand \/ state = None

\* The first branch of message: state = START, add_user, the welcome text
\* and start.jpg.
start_process(s, user_id, chat_id, state) ==
    LET s1 == add_user(s, user_id)
        s2 == send_message(s1, chat_id, load_stage_text(state, ""),
                           keyboard_from_messages(<<"Da">>))
    IN  send_image(s2, chat_id, "start.jpg", None, NoMarkup)

\* new_state in UserState and new_state != UserState.MENU
valid_selection(new_state) ==
    new_state \in UserStateMembers /\ new_state # "MENU"

\* The else branch of the menu selection.
invalid_selection(s, chat_id) ==
    send_message(s, chat_id, InvalidSelection,
                 keyboard_from_messages(MenuLabels))

(***************************************************************************)
(* message(update, context), with the decorator send_action(TYPING) that   *)
(* the name message is bound to: the handler's call of message in the menu *)
(* branch goes through the decorator again.                                *)
(***************************************************************************)
RECURSIVE command_func(_, _, _)

\* Seeded fault: the selected stage is stored and nothing is rendered.
menu_process_store_only(s, user_id, chat_id, text) ==
    IF ~IsMenuLabel(text)
    THEN raise(s, "KeyError")
    ELSE update_user_state(s, user_id, MenuTarget(text))

\* Seeded fault: an unknown label is looked up with a default, answered with
\* the invalid-selection reply, and the return after the branch is missing.
menu_process_falls_through(s, user_id, chat_id, text) ==
    IF ~IsMenuLabel(text)
    THEN advance(invalid_selection(s, chat_id), user_id, "MENU")
    ELSE command_func(update_user_state(s, user_id, MenuTarget(text)),
                      user_id, text)

\* elif state == UserState.MENU: stages_names[text] raises KeyError for a
\* text that is no key; a valid selection is stored and message is called
\* again with the same update.
menu_process(s, user_id, chat_id, text) ==
    IF ~IsMenuLabel(text)
    THEN raise(s, "KeyError")
    ELSE LET new_state == MenuTarget(text)
         IN  IF valid_selection(new_state)
             THEN command_func(update_user_state(s, user_id, new_state),
                               user_id, text)
             ELSE invalid_selection(s, chat_id)

message(s, user_id, text) ==
    LET chat_id == user_id
        state == get_user_state(s, user_id)
        s1 == logger_info(s, user_id, state, text)
    IN  IF restarts(text, state)
        THEN advance(start_process(s1, user_id, chat_id, "START"),
                     user_id, "START")
        ELSE IF state = "MENU"
        THEN menu_process(s1, user_id, chat_id, text)
        ELSE LET s2 == match_state(s1, user_id, chat_id, state, text)
             IN  IF match_returns(state)
                 THEN s2
                 ELSE advance(s2, user_id, state)

command_func(s, user_id, text) ==
    LET r == message(send_chat_action(s, user_id, "typing"), user_id, text)
    IN  r

(***************************************************************************)
(* The specification: the application handles one update after the other   *)
(* (main builds it without concurrent_updates).                            *)
(***************************************************************************)
Init ==
    /\ users = [u \in Users |-> NoRow]
    /\ media_cache = <<>>
    /\ issued = <<>>
    /\ sent = <<>>
    /\ log = <<>>
    /\ writes = <<>>
    /\ raised = None
    /\ Quiet

\* What message does with an update from user with the given text, run to
\* its end from the current database and cache.
Outcome(user, text) ==
    command_func(
        [users |-> users, media_cache |-> media_cache,
         issued |-> issued, sent |-> <<>>, log |-> <<>>,
         writes |-> <<>>, raised |-> None],
        user, text)

\* The effects of a handling on the database, the cache and the record of
\* the handling.
Commit(r) ==
    /\ users' = r.users
    /\ media_cache' = r.media_cache
    /\ issued' = r.issued
    /\ sent' = r.sent
    /\ log' = r.log
    /\ writes' = r.writes
    /\ raised' = r.raised

\* One update from user with the given text is handled to its end.
HandleUpdate(user, text) ==
    \E r \in {Outcome(user, text)} :
        /\ Commit(r)
        /\ UNCHANGED <<orbit, trail, task, pc>>

Next == \E user \in Users, text \in Texts : HandleUpdate(user, text)

Spec == Init /\ [][Next]_vars

(***************************************************************************)
(* Vocabulary of the properties.  log[1] is the record the handler logged  *)
(* on entry: the user, the state it loaded and the text of the message.    *)
(* After a menu jump log[2] is the record of the handler's own call of     *)
(* message.                                                                *)
(***************************************************************************)
Handled == Len(log) >= 1

\* The user, the loaded state and the text of the update handled last.
LastUser == log[1].user

LastState == log[1].state

LastText == log[1].text

\* The stage of the stored session of user u.
StoredStage(u) == UserStateOf(users[u])

\* The replies of the handling: its calls without the typing indicator.
IsReply(c) == c.method # "send_chat_action"

Replies == SelectSeq(sent, IsReply)

\* The asset a call sends, uploaded or by identifier.
MediaPath(c) == IF c.file # "" THEN c.file ELSE c.file_id.path

\* What a call shows: its method, its text or caption, its asset.
Shape(c) == <<c.method, c.text, MediaPath(c)>>

ReplyShapes == [i \in DOMAIN Replies |-> Shape(Replies[i])]

\* The keyboard with one row per menu label, in the order of stages_names.
MenuKeyboard == [i \in DOMAIN stages_names |-> <<stages_names[i][1]>>]

HasMenuKeyboard(c) ==
    /\ c.reply_markup.type = "ReplyKeyboardMarkup"
    /\ c.reply_markup.keyboard = MenuKeyboard

\* The content of START: the welcome text, then the image.
StartShapes ==
    << <<"send_message", "start.txt", "">>,
       <<"send_photo", None, "start.jpg">> >>

(***************************************************************************)
(* C1  Fresh-user bootstrap: when a user without a stored session sends a  *)
(* message with any text, the handler sends START's welcome text and       *)
(* START's image and nothing else, whatever the text, and the stored stage *)
(* is next(START) = AFTER_START.                                           *)
(***************************************************************************)
C1_FreshUserBootstrap ==
    (Handled /\ LastState = None) =>
        /\ raised = None
        /\ ReplyShapes = StartShapes
        /\ Len(log) = 1
        /\ NextStage("START") = "AFTER_START"
        /\ users[LastUser] = "after_start"

\* A fresh user wrote something that is not the command and was welcomed.
C1_Witness ==
    /\ Handled
    /\ LastState = None
    /\ LastText = "garbled"
    /\ ReplyShapes = StartShapes
    /\ users[LastUser] = "after_start"

(***************************************************************************)
(* C2  Restart from anywhere: whatever the stored stage, a message with    *)
(* the text "/start" renders START's content only (the handler does not    *)
(* render the prior stage and does not resolve a menu label) and the       *)
(* stored stage is next(START).                                            *)
(***************************************************************************)
C2_RestartFromAnywhere ==
    (Handled /\ LastText = StartCommand) =>
        /\ raised = None
        /\ ReplyShapes = StartShapes
        /\ Len(log) = 1
        /\ users[LastUser] = Value(NextStage("START"))

\* A user parked in the menu restarted.
C2_Witness ==
    /\ Handled
    /\ LastState = "MENU"
    /\ LastText = StartCommand
    /\ users[LastUser] = "after_start"

(***************************************************************************)
(* C3  Advance never blocks: a call of message that finds the session at a *)
(* stage other than END and MENU, with a text other than "/start", stores  *)
(* the stage one position further in STAGES: the pointer neither stays nor *)
(* skips.                                                                  *)
(***************************************************************************)
C3_AdvanceByOne ==
    Handled =>
        LET l == log[Len(log)]
        IN  (l.state \notin {None, "END", "MENU"} /\ l.text # StartCommand) =>
                /\ raised = None
                /\ l.state \in StagesSet
                /\ StoredStage(l.user) \in StagesSet
                /\ StagesIndex(StoredStage(l.user)) = StagesIndex(l.state) + 1

\* A wrong answer to the first question, given at TEST_Q2, moved the
\* session on to TEST_Q3.
C3_Witness ==
    /\ Handled
    /\ LastState = "TEST_Q2"
    /\ LastText = "garbled"
    /\ users[LastUser] = "test_q3"

(***************************************************************************)
(* C4  Session-stage validity: every stored session holds a stage of the   *)
(* stage order or MENU; none holds ZERO_NIGHT, which the enumeration       *)
(* declares and the order leaves out.                                      *)
(***************************************************************************)
C4_StoredStageValid ==
    \A u \in Users :
        users[u] # NoRow =>
            /\ users[u] \in UserStateValues
            /\ StoredStage(u) \in StagesSet \cup {"MENU"}
            /\ StoredStage(u) # "ZERO_NIGHT"

\* One session was sent into the script from the menu while another one is
\* parked in the menu.
C4_Witness ==
    /\ Len(log) = 2
    /\ \E u \in Users : u # LastUser /\ users[u] = "menu"
    /\ users[LastUser] \notin {NoRow, "menu"}

(***************************************************************************)
(* The three graded questions: the stage that grades, the answer it        *)
(* expects, the corrective text, the stage's own text, the stage after it. *)
(***************************************************************************)
QuizRelays ==
    { [stage |-> "TEST_Q2", expected |-> Answer1, corrective |-> "test_a1.txt",
       own |-> "test_q2.txt", next |-> "test_q3"],
      [stage |-> "TEST_Q3", expected |-> Answer2, corrective |-> "test_a2.txt",
       own |-> "test_q3.txt", next |-> "test_end"],
      [stage |-> "TEST_END", expected |-> Answer3,
       corrective |-> "test_a3.txt", own |-> "test_end.txt",
       next |-> "mc_start"] }

\* The texts of the replies, all of them plain messages.
ReplyTexts == [i \in DOMAIN Replies |-> Replies[i].text]

\* The corrective text precedes the stage's own text exactly when the text
\* differs from the expected answer; the stage's own text is sent and the
\* session is at the next stage.
QuizOutcome(q) ==
    /\ raised = None
    /\ \A i \in DOMAIN Replies : Replies[i].method = "send_message"
    /\ ReplyTexts = (IF LastText # q.expected THEN <<q.corrective>> ELSE <<>>)
                        \o <<q.own>>
    /\ users[LastUser] = q.next

(***************************************************************************)
(* C5 as stated  Quiz-lag validation, for every inbound text: at TEST_Q2,  *)
(* TEST_Q3 and TEST_END the corrective text of the previous question is    *)
(* sent before the stage's own text iff the text differs from the expected *)
(* answer, and in both cases the stage's own text is sent and the session  *)
(* advances.  The text "/start" refutes it.                                *)
(***************************************************************************)
C5_QuizLagAnyText ==
    Handled =>
        \A q \in QuizRelays : LastState = q.stage => QuizOutcome(q)

(***************************************************************************)
(* C5 amended  Quiz-lag validation, for every inbound text other than      *)
(* "/start".                                                               *)
(***************************************************************************)
C5_QuizLag ==
    Handled =>
        \A q \in QuizRelays :
            (LastState = q.stage /\ LastText # StartCommand) => QuizOutcome(q)

\* The answer to the second question, given to the third, was corrected at
\* TEST_END, and the session went on.
C5_Witness ==
    /\ Handled
    /\ LastState = "TEST_END"
    /\ LastText = Answer2
    /\ LastText # Answer3
    /\ ReplyTexts = <<"test_a3.txt", "test_end.txt">>
    /\ users[LastUser] = "mc_start"

(***************************************************************************)
(* The terminal stage's outcome: one reply, with the keyboard of all menu  *)
(* labels in order; the session is at MENU, written by the END case alone  *)
(* (the advance after the match did not run).                              *)
(***************************************************************************)
TerminalOutcome ==
    /\ raised = None
    /\ ReplyShapes = << <<"send_message", "end.txt", "">> >>
    /\ HasMenuKeyboard(Replies[1])
    /\ users[LastUser] = "menu"
    /\ writes = << [op |-> "UPDATE", id |-> LastUser, state |-> "menu"] >>

(***************************************************************************)
(* C6 as stated  Terminal loop: from END, any input yields a reply with    *)
(* the menu keyboard and sets the stage to MENU.  The text "/start"        *)
(* refutes it.                                                             *)
(***************************************************************************)
C6_TerminalLoopAnyInput ==
    (Handled /\ LastState = "END") => TerminalOutcome

(***************************************************************************)
(* C6 amended  Terminal loop: from END, any input other than "/start"      *)
(* yields a reply with the menu keyboard and sets the stage to MENU,       *)
(* without the generic advance.                                            *)
(***************************************************************************)
C6_TerminalLoop ==
    (Handled /\ LastState = "END" /\ LastText # StartCommand) =>
        TerminalOutcome

\* A session at END received a text and is parked in the menu.
C6_Witness ==
    /\ Handled
    /\ LastState = "END"
    /\ LastText = "garbled"
    /\ HasMenuKeyboard(Replies[1])
    /\ users[LastUser] = "menu"

(***************************************************************************)
(* What each stage of the menu shows when a message finds the session      *)
(* there.                                                                  *)
(***************************************************************************)
Plain(name) == << <<"send_message", name \o ".txt", "">> >>

WithMedia(method, name, asset) ==
    << <<"send_message", name \o "1.txt", "">>,
       <<method, name \o "2.txt", asset>> >>

TargetRendering(stage) ==
    CASE stage = "COMMON" -> Plain("common")
      [] stage = "RED" -> WithMedia("send_photo", "red", "red.jpg")
      [] stage = "YELLOW" -> WithMedia("send_photo", "yellow", "yellow.jpg")
      [] stage = "BLACK" -> WithMedia("send_photo", "black", "black.jpg")
      [] stage = "GRAY" -> WithMedia("send_photo", "gray", "gray.jpg")
      [] stage = "HOW_TO_FIRE" -> Plain("how_to_fire")
      [] stage = "FIRST_DAY" -> Plain("first_day")
      [] stage = "VOTING" -> WithMedia("send_video", "voting", "voting.mp4")
      [] stage = "FIRE" -> Plain("fire")
      [] stage = "NIGHT" -> WithMedia("send_video", "night", "night.mp4")
      [] stage = "FAULTS" -> Plain("faults")
      [] stage = "WHO" -> << <<"send_message", "who.txt", "">>,
                             <<"send_photo", "who2.txt", "who.jpg">> >>
      [] stage = "DICT" -> Plain("dict")
      [] stage = "TEST_Q1" -> Plain("test_q1")
      [] stage = "MC1" -> Plain("mc1")
      [] stage = "WHERE" -> Plain("where")
      [] OTHER -> <<>>

MenuTargets == {stages_names[i][2] : i \in DOMAIN stages_names}

(***************************************************************************)
(* C7  Menu jump: a recognized label sent at MENU makes the one handling   *)
(* render the target stage T (what a message that finds the session at T   *)
(* is answered with) and leaves next(T) stored; every target is a stage of *)
(* the order other than MENU.                                              *)
(***************************************************************************)
C7_MenuJump ==
    /\ \A i \in DOMAIN stages_names :
            stages_names[i][2] \in StagesSet \ {"MENU"}
    /\ (Handled /\ LastState = "MENU" /\ IsMenuLabel(LastText)) =>
            LET T == MenuTarget(LastText)
            IN  /\ raised = None
                /\ log = << [user |-> LastUser, state |-> "MENU",
                             text |-> LastText],
                            [user |-> LastUser, state |-> T,
                             text |-> LastText] >>
                /\ ReplyShapes = TargetRendering(T)
                /\ ReplyShapes # <<>>
                /\ users[LastUser] = Value(NextStage(T))
    /\ (Len(log) = 1 /\ LastState \in MenuTargets
            /\ LastText # StartCommand) =>
            ReplyShapes = TargetRendering(LastState)

\* The label of the voting stage was chosen in the menu: the voting stage
\* was rendered and the session is at FIRE.
C7_Witness ==
    /\ Len(log) = 2
    /\ LastState = "MENU"
    /\ LastText = "Golosovanie"
    /\ ReplyShapes = WithMedia("send_video", "voting", "voting.mp4")
    /\ users[LastUser] = "fire"

\* A text at MENU that is neither a label nor the command.
InvalidLabelAtMenu ==
    /\ Handled
    /\ LastState = "MENU"
    /\ ~IsMenuLabel(LastText)
    /\ LastText # StartCommand

(***************************************************************************)
(* C8  Invalid menu label is a normal branch: a text at MENU that is no    *)
(* label (and not "/start") is handled without an error and answered with  *)
(* the invalid-selection reply, whose keyboard lists the menu labels in    *)
(* order.  The handler raises KeyError instead.                            *)
(***************************************************************************)
C8_InvalidLabelAnswered ==
    InvalidLabelAtMenu =>
        /\ raised = None
        /\ Len(Replies) = 1
        /\ Replies[1].method = "send_message"
        /\ Replies[1].text = InvalidSelection
        /\ HasMenuKeyboard(Replies[1])

(***************************************************************************)
(* C9  Invalid menu label leaves the state untouched: after a text at MENU *)
(* that is no label (and not "/start") the stored stage is MENU and the    *)
(* handling ran no write against the users table.                          *)
(***************************************************************************)
C9_InvalidLabelNoWrite ==
    InvalidLabelAtMenu =>
        /\ users[LastUser] = "menu"
        /\ writes = <<>>

\* A garbled text arrived at MENU; the session is still there.
C9_Witness ==
    /\ InvalidLabelAtMenu
    /\ LastText = "garbled"
    /\ users[LastUser] = "menu"

IsMedia(c) == c.method \in {"send_photo", "send_video"}

IsUpload(c) == c.file # ""

(***************************************************************************)
(* C10  Media idempotence: when two handlings that follow one another, for *)
(* two different users, send the same asset and the first one uploads it,  *)
(* the second one does not upload: it sends the identifier the upload      *)
(* returned, which the cache holds.  So the two sends cost one upload, for *)
(* images as for videos.  The images refute it: send_image uploads with    *)
(* every call.                                                             *)
(***************************************************************************)
C10_MediaIdempotence ==
    [][\A i \in DOMAIN sent : \A j \in DOMAIN sent' :
            ( /\ IsMedia(sent[i])
              /\ IsMedia(sent'[j])
              /\ sent[i].chat_id # sent'[j].chat_id
              /\ MediaPath(sent[i]) = MediaPath(sent'[j])
              /\ IsUpload(sent[i]) ) =>
                /\ ~IsUpload(sent'[j])
                /\ sent'[j].file_id = sent[i].result
                /\ MediaPath(sent[i]) \in DOMAIN media_cache'
                /\ media_cache'[MediaPath(sent[i])] = sent[i].result]_vars

(***************************************************************************)
(* The successor function on its own: a walk starts at any stage of STAGES *)
(* and applies NextStage, at most Len(STAGES) times.                       *)
(***************************************************************************)
CycleInit ==
    /\ users = [u \in Users |-> NoRow]
    /\ media_cache = <<>>
    /\ issued = <<>>
    /\ sent = <<>>
    /\ log = <<>>
    /\ writes = <<>>
    /\ raised = None
    /\ trail = <<>>
    /\ task = [t \in Tasks |-> NoTask]
    /\ pc = [t \in Tasks |-> "idle"]
    /\ \E s \in StagesSet :
            orbit = [from |-> s, at |-> s, prev |-> "", n |-> 0]

CycleStep ==
    /\ orbit.n < Len(STAGES)
    /\ orbit' = [from |-> orbit.from, at |-> NextStage(orbit.at),
                 prev |-> orbit.at, n |-> orbit.n + 1]
    /\ UNCHANGED <<users, media_cache, issued, sent, log, writes, raised,
                   trail, task, pc>>

CycleSpec == CycleInit /\ [][CycleStep]_vars

\* The stages of the order without MENU, START to END.
LinearStages == StagesSet \ {"MENU"}

C12_EveryMessageAnswered ==
    Handled => Len(Replies) >= 1

(***************************************************************************)
(* C13 as stated  MENU is absorbing: a session stored at MENU leaves MENU  *)
(* only in the handling of a recognized menu label of its user.  The text  *)
(* "/start" refutes it.                                                    *)
(***************************************************************************)
C13_MenuLeftByLabelOnly ==
    [][\A u \in Users :
            (users[u] = "menu" /\ users'[u] # "menu") =>
                /\ log'[1].user = u
                /\ IsMenuLabel(log'[1].text)]_vars

(***************************************************************************)
(* C13 amended  MENU is absorbing: a session stored at MENU leaves MENU    *)
(* only in the handling of a message of its user whose text is a           *)
(* recognized menu label or "/start"; after every other message it is      *)
(* still at MENU.                                                          *)
(***************************************************************************)
C13_MenuAbsorbing ==
    [][\A u \in Users :
            (users[u] = "menu" /\ users'[u] # "menu") =>
                /\ log'[1].user = u
                /\ log'[1].state = "MENU"
                /\ (IsMenuLabel(log'[1].text)
                        \/ log'[1].text = StartCommand)]_vars

\* A quiz answer arrived at MENU and the session stayed there.
C13_Witness ==
    /\ Handled
    /\ LastState = "MENU"
    /\ LastText = Answer1
    /\ users[LastUser] = "menu"

(***************************************************************************)
(* C14  MENU is entered only from the terminal stage: a stored stage       *)
(* becomes MENU only in a handling that found the session of that user at  *)
(* END, and no other handling (a linear advance, a menu jump, a restart)   *)
(* runs a write of MENU.                                                   *)
(***************************************************************************)
C14_MenuOnlyFromEnd ==
    /\ [](\A i \in DOMAIN writes :
            writes[i].state = "menu" =>
                /\ Len(log) = 1
                /\ LastState = "END"
                /\ LastText # StartCommand
                /\ writes[i].id = LastUser)
    /\ [][\A u \in Users :
            (users[u] # "menu" /\ users'[u] = "menu") =>
                /\ users[u] = "end"
                /\ Len(log') = 1
                /\ log'[1].user = u
                /\ log'[1].state = "END"]_vars

\* The handling of a message at END has written MENU.
C14_Witness ==
    /\ Len(log) = 1
    /\ LastState = "END"
    /\ writes = << [op |-> "UPDATE", id |-> LastUser, state |-> "menu"] >>
    /\ users[LastUser] = "menu"

(***************************************************************************)
(* The linear walkthrough: one user without a session keeps sending texts  *)
(* other than "/start", each handled to its end, until the session is at   *)
(* MENU.  trail holds, per handling, the stages whose content was sent.    *)
(***************************************************************************)
Walker == "u1"

\* The texts of a stage's content: <value>.txt, <value>1.txt, <value>2.txt.
StageTexts(stage) == {load_stage_text(stage, sfx) : sfx \in {"", "1", "2"}}

\* The stages of which a sequence of calls sends some content.
Rendered(calls) ==
    {stage \in StagesSet :
        \E i \in DOMAIN calls : calls[i].text \in StageTexts(stage)}

WalkStep ==
    /\ users[Walker] # Value("MENU")
    /\ \E text \in Texts \ {StartCommand} :
        \E r \in {Outcome(Walker, text)} :
            /\ Commit(r)
            /\ trail' = Append(trail, Rendered(r.sent))
            /\ UNCHANGED <<orbit, task, pc>>

WalkSpec == Init /\ [][WalkStep]_vars /\ WF_vars(WalkStep)

\* The stages before MENU, in the order of STAGES.
Walkthrough == SubSeq(STAGES, 1, Len(STAGES) - 1)

(***************************************************************************)
(* C15  Linear walkthrough reaches the menu: for a fresh user who keeps    *)
(* sending texts other than "/start", the k-th handling renders the k-th   *)
(* stage of STAGES and no other, from START to END, no stage skipped or    *)
(* repeated; the session is then at the following stage, and eventually    *)
(* it is at MENU, END having been rendered last.                           *)
(***************************************************************************)
C15_LinearWalkthrough ==
    /\ [](/\ Len(trail) <= Len(Walkthrough)
          /\ \A k \in DOMAIN trail : trail[k] = {Walkthrough[k]}
          /\ users[Walker] = IF trail = <<>> THEN NoRow
                             ELSE Value(STAGES[Len(trail) + 1]))
    /\ <>(/\ users[Walker] = Value("MENU")
          /\ Len(trail) = Len(Walkthrough)
          /\ trail[Len(trail)] = {"END"})

\* The walkthrough is complete and the session is at MENU.
C15_Witness ==
    /\ users[Walker] = Value("MENU")
    /\ trail = [k \in DOMAIN Walkthrough |-> {Walkthrough[k]}]
    /\ LastState = "END"

C17_CrossUserIsolation ==
    /\ [](Handled =>
            /\ \A i \in DOMAIN writes : writes[i].id = LastUser
            /\ \A i \in DOMAIN sent : sent[i].chat_id = LastUser
            /\ \A i \in DOMAIN log : log[i].user = LastUser)
    /\ [][\A v \in Users : v # log'[1].user => users'[v] = users[v]]_vars

\* One user's message was handled while the other user had a session, and
\* the first user's video is in the cache the other user reads.
C17_Witness ==
    /\ Handled
    /\ LastUser = "u1"
    /\ LastState = "VOTING"
    /\ users["u1"] = Value("FIRE")
    /\ users["u2"] = Value("VOTING")
    /\ "voting.mp4" \in DOMAIN media_cache

(***************************************************************************)
(* Handlers in flight together.  main builds the application without       *)
(* concurrent_updates; with it, the calls of message are tasks of one      *)
(* event loop that yield at every await.  Each task below handles one      *)
(* update; a step runs from one access of the shared state (the users      *)
(* table, media_cache) to the next, the sends between them included.       *)
(* sent, log and writes hold the calls of both tasks in the order they     *)
(* were made; trail holds the value stored before the handlings.           *)
(***************************************************************************)
ConcTexts == {StartCommand, "garbled", "Golosovanie"}

\* The first task handles a message of u1, the second one of either user.
TaskUsers(t) == IF t = "t1" THEN {"u1"} ELSE Users

\* The stored values a sequence of handlings can leave, or no row at all.
ConcStored == {NoRow} \cup {Value(stage) : stage \in StagesSet \ {"START"}}

VideoStages == {"VOTING", "NIGHT"}

VideoPath(state) == IF state = "VOTING" THEN "voting.mp4" ELSE "night.mp4"

VideoReply(state) ==
    IF state = "VOTING" THEN "A potom chto?" ELSE "Eto vse? Uzhe mozhno igrat?"

Now ==
    [users |-> users, media_cache |-> media_cache, issued |-> issued,
     sent |-> sent, log |-> log, writes |-> writes, raised |-> raised]

ConcInit ==
    /\ \E v \in ConcStored :
        /\ users = [u \in Users |-> v]
        /\ trail = <<v>>
    /\ media_cache = <<>>
    /\ issued = <<>>
    /\ sent = <<>>
    /\ log = <<>>
    /\ writes = <<>>
    /\ raised = None
    /\ orbit = NoOrbit
    /\ task = [t \in Tasks |-> NoTask]
    /\ pc = [t \in Tasks |-> "idle"]

\* Seeded fault: the advance starts from the stage stored now.
AdvanceFrom_stored(t) == UserStateOf(users[task[t].user])

\* The local variable state at line 333.
AdvanceFrom(t) == task[t].state

\* The typing indicator, get_user_state, the log line and the choice of the
\* branch; stages_names[text] is evaluated before the next await.
Load(t, user, text, depth) ==
    LET s1 == send_chat_action(Now, user, "typing")
        state == get_user_state(s1, user)
        s2 == logger_info(s1, user, state, text)
        label == IF restarts(text, state) THEN "add_user"
                 ELSE IF state # "MENU" THEN "render"
                 ELSE IF ~IsMenuLabel(text) THEN "done"
                 ELSE IF valid_selection(MenuTarget(text)) THEN "store"
                 ELSE "done"
        r == IF restarts(text, state) \/ state # "MENU" THEN s2
             ELSE IF ~IsMenuLabel(text) THEN raise(s2, "KeyError")
             ELSE IF valid_selection(MenuTarget(text)) THEN s2
             ELSE invalid_selection(s2, user)
    IN  /\ Commit(r)
        /\ task' = [task EXCEPT ![t] = [user |-> user, text |-> text,
                                        loaded |-> state, state |-> state,
                                        depth |-> depth, miss |-> ""]]
        /\ pc' = [pc EXCEPT ![t] = label]
        /\ UNCHANGED <<orbit, trail>>

Read(t) ==
    /\ pc[t] = "idle"
    /\ \E user \in TaskUsers(t), text \in ConcTexts : Load(t, user, text, 0)

\* await message(update, context) of the menu branch.
Reenter(t) ==
    /\ pc[t] = "reenter"
    /\ Load(t, task[t].user, task[t].text, task[t].depth + 1)

\* state = UserState.START; add_user; the welcome text and the image.
AddUser(t) ==
    /\ pc[t] = "add_user"
    /\ Commit(start_process(Now, task[t].user, task[t].user, "START"))
    /\ task' = [task EXCEPT ![t].state = "START"]
    /\ pc' = [pc EXCEPT ![t] = "advance"]
    /\ UNCHANGED <<orbit, trail>>

\* await update_user_state(user.id, new_state) of the menu branch.
StoreTarget(t) ==
    /\ pc[t] = "store"
    /\ Commit(update_user_state(Now, task[t].user, MenuTarget(task[t].text)))
    /\ pc' = [pc EXCEPT ![t] = "reenter"]
    /\ UNCHANGED <<orbit, trail, task>>

\* The case of the match: its sends, up to the test of media_cache and the
\* request of an upload for a video not cached, or up to the write of MENU
\* for END.
Render(t) ==
    /\ pc[t] = "render"
    /\ LET user == task[t].user
           state == task[t].state
       IN  IF state \in VideoStages /\ VideoPath(state) \notin DOMAIN media_cache
           THEN /\ Commit(send_message(Now, user, load_stage_text(state, "1"),
                                       NoMarkup))
                /\ task' = [task EXCEPT ![t].miss = VideoPath(state)]
                /\ pc' = [pc EXCEPT ![t] = "upload"]
           ELSE IF match_returns(state)
           THEN /\ Commit(send_message(Now, user, load_stage_text(state, ""),
                                       keyboard_from_messages(MenuLabels)))
                /\ pc' = [pc EXCEPT ![t] = "set_menu"]
                /\ UNCHANGED task
           ELSE /\ Commit(match_state(Now, user, user, state, task[t].text))
                /\ pc' = [pc EXCEPT ![t] = "advance"]
                /\ UNCHANGED task
    /\ UNCHANGED <<orbit, trail>>

\* The upload returns: media_cache[video_path] = update.video.file_id
Upload(t) ==
    /\ pc[t] = "upload"
    /\ Commit(send_video_upload(Now, task[t].user, task[t].miss,
                                load_stage_text(task[t].state, "2"),
                                keyboard_from_messages(
                                    <<VideoReply(task[t].state)>>)))
    /\ pc' = [pc EXCEPT ![t] = "advance"]
    /\ UNCHANGED <<orbit, trail, task>>

\* await update_user_state(user.id, UserState.MENU); return
SetMenu(t) ==
    /\ pc[t] = "set_menu"
    /\ Commit(update_user_state(Now, task[t].user, "MENU"))
    /\ pc' = [pc EXCEPT ![t] = "done"]
    /\ UNCHANGED <<orbit, trail, task>>

\* next_stage = STAGES[...]; await update_user_state(user.id, next_stage)
Advance(t) ==
    /\ pc[t] = "advance"
    /\ Commit(advance(Now, task[t].user, AdvanceFrom(t)))
    /\ pc' = [pc EXCEPT ![t] = "done"]
    /\ UNCHANGED <<orbit, trail, task>>

ConcNext ==
    \E t \in Tasks :
        \/ Read(t)
        \/ Reenter(t)
        \/ AddUser(t)
        \/ StoreTarget(t)
        \/ Render(t)
        \/ Upload(t)
        \/ SetMenu(t)
        \/ Advance(t)

ConcSpec == ConcInit /\ [][ConcNext]_vars

\* Both handlers have returned or raised.
AllDone == \A t \in Tasks : pc[t] = "done"

\* The positions in sent of the uploads of a video path.
UploadsOf(path) ==
    {i \in DOMAIN sent : sent[i].method = "send_video" /\ sent[i].file = path}

(***************************************************************************)
(* C18  Media cache is race-safe: under every interleaving of handlers     *)
(* that send the same video path, a handler that missed the cache uploads  *)
(* the file (more than one may), every cached entry of a path is an        *)
(* identifier an upload of that path returned, every send by identifier    *)
(* uses an identifier an earlier upload of the path of its stage returned, *)
(* and once all handlers have finished the cache holds an entry for every  *)
(* path sent.                                                              *)
(***************************************************************************)
C18_MediaCacheRaceSafe ==
    /\ \A t \in Tasks :
        (task[t].miss # "" /\ pc[t] # "upload") =>
            \E i \in UploadsOf(task[t].miss) : sent[i].chat_id = task[t].user
    /\ \A path \in DOMAIN media_cache :
        \E i \in UploadsOf(path) : sent[i].result = media_cache[path]
    /\ \A i \in DOMAIN sent :
        (sent[i].method = "send_video" /\ sent[i].file = "") =>
            /\ \E state \in VideoStages :
                /\ sent[i].text = load_stage_text(state, "2")
                /\ sent[i].file_id.path = VideoPath(state)
            /\ \E j \in UploadsOf(sent[i].file_id.path) :
                j < i /\ sent[j].result = sent[i].file_id
    /\ AllDone =>
        /\ \A i \in DOMAIN sent :
            sent[i].method = "send_video" =>
                MediaPath(sent[i]) \in DOMAIN media_cache
        /\ \A t \in Tasks :
            task[t].miss # "" => task[t].miss \in DOMAIN media_cache

\* Two users missed the cache for the same video, both uploaded it, and the
\* cache holds the identifier of the second upload.
C18_Witness ==
    /\ AllDone
    /\ task["t1"].user # task["t2"].user
    /\ task["t1"].miss = "voting.mp4"
    /\ task["t2"].miss = "voting.mp4"
    /\ Cardinality(UploadsOf("voting.mp4")) = 2
    /\ media_cache["voting.mp4"] = [path |-> "voting.mp4", n |-> 2]

\* The stages with a case of the match that falls to the advance.
DoubleTapStages == {STAGES[i] : i \in 2 .. (Len(STAGES) - 2)}

\* Both updates are of u1, at a linear stage, with texts other than "/start".
DoubleTap ==
    /\ trail[1] \in {Value(stage) : stage \in DoubleTapStages}
    /\ \A t \in Tasks :
        pc[t] # "idle" =>
            task[t].user = "u1" /\ task[t].text # StartCommand

\* The stages of which the calls to a chat send some content.
RenderedFor(chat_id) ==
    Rendered(SelectSeq(sent, LAMBDA c : c.chat_id = chat_id))

(***************************************************************************)
(* C19  Unserialized double-tap: when two messages of one user at a linear *)
(* stage s, with texts other than "/start", are handled with their reads   *)
(* and writes interleaved, the stored stage after both finish is next(s)   *)
(* or next(next(s)), and at no moment is the stored stage beyond a stage   *)
(* that neither handler has rendered.                                      *)
(***************************************************************************)
C19_DoubleTap ==
    DoubleTap =>
        LET s == UserStateOf(trail[1])
            at == StoredStage("u1")
        IN  /\ at \in {s, NextStage(s), NextStage(NextStage(s))}
            /\ at # s => s \in RenderedFor("u1")
            /\ at = NextStage(NextStage(s)) =>
                    NextStage(s) \in RenderedFor("u1")
            /\ AllDone => at # s
            /\ raised = None

\* Both handlers loaded the same stage before either stored its successor:
\* the stage was rendered twice and the session advanced once.
C19_Witness ==
    /\ DoubleTap
    /\ AllDone
    /\ trail[1] = Value("FIRST_DAY")
    /\ task["t1"].state = "FIRST_DAY"
    /\ task["t2"].state = "FIRST_DAY"
    /\ users["u1"] = Value("VOTING")

LoadedStart(t) == pc[t] # "idle" /\ task[t].loaded = "START"

\* Task t found no row and has run add_user.
Bootstrapping(t) ==
    /\ task[t].loaded = None
    /\ task[t].state = "START"
    /\ pc[t] \in {"advance", "done"}

=============================================================================
